---- MODULE Spec2Model ----
(***************************************************************************)
(* A model of the item store service of main.py: the process-wide          *)
(* dictionary items_db and the five request handlers that read and write   *)
(* it.  The dictionary is a Python dict, so it is modelled as the sequence *)
(* of its (key, value) entries in insertion order.  Every handler is an    *)
(* `async def` without an await, so it runs to completion on the event     *)
(* loop: one handler call is one action.                                   *)
(***************************************************************************)
EXTENDS Integers, Sequences, FiniteSets, TLC

VARIABLES
    items_db,   \* the dict: a sequence of entries [key, value], insertion order
    last,       \* the request handled by the latest step and its response
    used,       \* history: every id uuid4() has returned so far
    lastWrite   \* history: per stored id, the text/is_done written last

vars == <<items_db, last, used, lastWrite>>

----------------------------------------------------------------------------
(* Bounds of the model *)

\* number of distinct values uuid4() can return in the model
NumUUIDs == 2
\* list_items is tried with skip and limit in -MaxPage .. MaxPage under Spec
MaxPage == 1
\* the largest store the listing specification starts from
MaxItems == 15
\* the listing specification draws skip and limit from -MaxArg .. MaxArg
MaxArg == 11

(* Program constants *)

\* Field(..., min_length=1)
min_length == 1
\* status_code of a handler without one
HTTP_200_OK == 200
HTTP_201_CREATED == 201
HTTP_204_NO_CONTENT == 204
HTTP_404_NOT_FOUND == 404
\* the response to a body that ItemCreate rejects
HTTP_422_UNPROCESSABLE_ENTITY == 422
\* skip: int = 0, limit: int = 10
default_skip == 0
default_limit == 10

UUIDs == 1..NumUUIDs
Texts == {"", "milk", "eggs"}

\* An optional JSON field is a sequence of length 0 (absent) or 1 (present).
Opt(S) == {<<>>} \cup {<<x>> : x \in S}
Bodies == [text : Opt(Texts), is_done : Opt(BOOLEAN)]

----------------------------------------------------------------------------
(* Python dict and list primitives used by the handlers *)

Keys(db) == {db[i].key : i \in 1..Len(db)}
\* list(d.values())
Values(db) == [i \in 1..Len(db) |-> db[i].value]
IndexOf(db, k) == CHOOSE i \in 1..Len(db) : db[i].key = k

\* d.get(k): the value stored under k, as a sequence of length 1; <<>> is None
DictGet(db, k) == IF k \in Keys(db) THEN <<db[IndexOf(db, k)].value>> ELSE <<>>

\* d[k] = v: replaces the value in place when k is a key, appends otherwise
DictSet(db, k, v) ==
    IF k \in Keys(db)
    THEN [db EXCEPT ![IndexOf(db, k)] = [key |-> k, value |-> v]]
    ELSE Append(db, [key |-> k, value |-> v])

\* del d[k], for a key k of d
DictDel(db, k) ==
    LET at == IndexOf(db, k)
    IN  [i \in 1..(Len(db) - 1) |-> IF i < at THEN db[i] ELSE db[i + 1]]

\* Python's index normalisation of a slice bound for a list of length n
SliceIndex(i, n) ==
    LET j == IF i < 0 THEN i + n ELSE i
    IN  IF j < 0 THEN 0 ELSE IF j > n THEN n ELSE j

\* s[a:b]
PySlice(s, a, b) ==
    LET lo == SliceIndex(a, Len(s))
        hi == SliceIndex(b, Len(s))
    IN  IF lo < hi THEN [i \in 1..(hi - lo) |-> s[lo + i]] ELSE <<>>

----------------------------------------------------------------------------
(* Pydantic models *)

ItemResponse(id, text, is_done) == [id |-> id, text |-> text, is_done |-> is_done]

\* a validator that lost min_length
ItemCreateValid_NoMinLength(body) == Len(body.text) = 1

\* ItemCreate accepts a body when text is present with at least min_length
\* characters; is_done defaults to False.
ItemCreateValid(body) ==
    /\ Len(body.text) = 1
    /\ Len(body.text[1]) >= min_length

ItemCreate(body) ==
    [text    |-> body.text[1],
     is_done |-> IF Len(body.is_done) = 1 THEN body.is_done[1] ELSE FALSE]

----------------------------------------------------------------------------
(* The handlers: each returns the new dict, the status and the response    *)
(* body (a sequence of items: empty for no content, one item, or a page).  *)

Response(db, status, body) == [db |-> db, status |-> status, body |-> body]

create_item(db, item_id, item_in) ==
    LET new_item == ItemResponse(item_id, item_in.text, item_in.is_done)
    IN  Response(DictSet(db, item_id, new_item), HTTP_201_CREATED, <<new_item>>)

\* a page that ends at limit instead of skip + limit
list_items_EndAtLimit(db, skip, limit) ==
    Response(db, HTTP_200_OK, PySlice(Values(db), skip, limit))

list_items(db, skip, limit) ==
    LET all_items == Values(db)
    IN  Response(db, HTTP_200_OK, PySlice(all_items, skip, skip + limit))

\* a lookup by items_db.pop(item_id, None)
get_item_Pop(db, item_id) ==
    IF item_id \in Keys(db)
    THEN Response(DictDel(db, item_id), HTTP_200_OK, DictGet(db, item_id))
    ELSE Response(db, HTTP_404_NOT_FOUND, <<>>)

get_item(db, item_id) ==
    LET item == DictGet(db, item_id)
    IN  IF item = <<>>
        THEN Response(db, HTTP_404_NOT_FOUND, <<>>)
        ELSE Response(db, HTTP_200_OK, item)

\* an update that forgets to assign item.text
update_item_KeepsText(db, item_id, item_update) ==
    LET item == DictGet(db, item_id)
    IN  IF item = <<>>
        THEN Response(db, HTTP_404_NOT_FOUND, <<>>)
        ELSE LET updated == [item[1] EXCEPT !.is_done = item_update.is_done]
             IN  Response(DictSet(db, item_id, updated), HTTP_200_OK, <<updated>>)

\* an update without the lookup's 404: it stores the item under any id
update_item_Upsert(db, item_id, item_update) ==
    LET updated == ItemResponse(item_id, item_update.text, item_update.is_done)
    IN  Response(DictSet(db, item_id, updated), HTTP_200_OK, <<updated>>)

update_item(db, item_id, item_update) ==
    LET item == DictGet(db, item_id)
    IN  IF item = <<>>
        THEN Response(db, HTTP_404_NOT_FOUND, <<>>)
        ELSE LET updated == [item[1] EXCEPT !.text = item_update.text,
                                            !.is_done = item_update.is_done]
             IN  Response(DictSet(db, item_id, updated), HTTP_200_OK, <<updated>>)

delete_item(db, item_id) ==
    IF item_id \notin Keys(db)
    THEN Response(db, HTTP_404_NOT_FOUND, <<>>)
    ELSE Response(DictDel(db, item_id), HTTP_204_NO_CONTENT, <<>>)

----------------------------------------------------------------------------
(* Requests *)

NoBody == [text |-> <<>>, is_done |-> <<>>]

Request(op, id, body, skip, limit) ==
    [op |-> op, id |-> id, body |-> body, skip |-> skip, limit |-> limit]

\* what a step leaves in `last`: the request and the response to it
Record(req, r) ==
    [op |-> req.op, id |-> req.id, body |-> req.body, skip |-> req.skip,
     limit |-> req.limit, status |-> r.status, result |-> r.body]

Written(w, id, text, is_done) ==
    [k \in (DOMAIN w) \cup {id} |->
        IF k = id THEN [text |-> text, is_done |-> is_done] ELSE w[k]]

NoWrites == [k \in {} |-> [text |-> "", is_done |-> FALSE]]

\* a query parameter that is left out takes its default
QueryInt(q, default) == IF q = <<>> THEN default ELSE q[1]

\* uuid.uuid4() draws at random: any UUID may come out, a stored one included
uuid4 == UUIDs

Init ==
    /\ items_db = <<>>
    /\ last = Record(Request("start", 0, NoBody, 0, 0), Response(<<>>, 0, <<>>))
    /\ used = {}
    /\ lastWrite = NoWrites

\* POST /items with the new id drawn from ids: the body is validated before
\* create_item runs
CreateRequest(ids) ==
    \E body \in Bodies :
        IF ~ItemCreateValid(body)
        THEN /\ last' = Record(Request("create", 0, body, 0, 0),
                               Response(items_db, HTTP_422_UNPROCESSABLE_ENTITY, <<>>))
             /\ UNCHANGED <<items_db, used, lastWrite>>
        ELSE \E item_id \in ids :
                LET item_in == ItemCreate(body)
                    r == create_item(items_db, item_id, item_in)
                IN  /\ items_db' = r.db
                    /\ last' = Record(Request("create", item_id, body, 0, 0), r)
                    /\ used' = used \cup {item_id}
                    /\ lastWrite' = Written(lastWrite, item_id,
                                            item_in.text, item_in.is_done)

PostItems == CreateRequest(uuid4)

\* GET /items?skip=..&limit=.. with the parameters, when given, drawn from
\* args: any two integers are accepted
ListRequest(args) ==
    \E skip_q, limit_q \in Opt(args) :
        LET skip == QueryInt(skip_q, default_skip)
            limit == QueryInt(limit_q, default_limit)
            r == list_items(items_db, skip, limit)
        IN  /\ items_db' = r.db
            /\ last' = Record(Request("list", 0, NoBody, skip, limit), r)
            /\ UNCHANGED <<used, lastWrite>>

GetItems == ListRequest((-MaxPage)..MaxPage)

\* GET /items/{item_id}
GetItem ==
    \E item_id \in UUIDs :
        LET r == get_item(items_db, item_id)
        IN  /\ items_db' = r.db
            /\ last' = Record(Request("get", item_id, NoBody, 0, 0), r)
            /\ UNCHANGED <<used, lastWrite>>

\* PUT /items/{item_id}: the body is validated before update_item runs
PutItem ==
    \E item_id \in UUIDs, body \in Bodies :
        IF ~ItemCreateValid(body)
        THEN /\ last' = Record(Request("update", item_id, body, 0, 0),
                               Response(items_db, HTTP_422_UNPROCESSABLE_ENTITY, <<>>))
             /\ UNCHANGED <<items_db, used, lastWrite>>
        ELSE LET item_update == ItemCreate(body)
                 r == update_item(items_db, item_id, item_update)
             IN  /\ items_db' = r.db
                 /\ last' = Record(Request("update", item_id, body, 0, 0), r)
                 /\ lastWrite' = IF r.status = HTTP_200_OK
                                 THEN Written(lastWrite, item_id,
                                              item_update.text, item_update.is_done)
                                 ELSE lastWrite
                 /\ UNCHANGED used

\* DELETE /items/{item_id}
DeleteItem ==
    \E item_id \in UUIDs :
        LET r == delete_item(items_db, item_id)
        IN  /\ items_db' = r.db
            /\ last' = Record(Request("delete", item_id, NoBody, 0, 0), r)
            /\ lastWrite' = [k \in (DOMAIN lastWrite) \cap Keys(r.db) |-> lastWrite[k]]
            /\ UNCHANGED used

Next ==
    \/ PostItems
    \/ GetItems
    \/ GetItem
    \/ PutItem
    \/ DeleteItem

Spec == Init /\ [][Next]_vars

----------------------------------------------------------------------------
(* The listing on its own: the store after n creations with distinct ids,  *)
(* the k-th created item having id k, and list_items called on it.         *)

CreatedStore(n) ==
    [k \in 1..n |-> [key |-> k, value |-> ItemResponse(k, "milk", FALSE)]]

InitList ==
    \E n \in 0..MaxItems :
        /\ items_db = CreatedStore(n)
        /\ last = Record(Request("start", 0, NoBody, 0, 0), Response(<<>>, 0, <<>>))
        /\ used = 1..n
        /\ lastWrite = [k \in 1..n |-> [text |-> "milk", is_done |-> FALSE]]

\* one call per store: list_items leaves the store as it is
GetItemsWide == last.op = "start" /\ ListRequest((-MaxArg)..MaxArg)

NextList == GetItemsWide

SpecList == InitList /\ [][NextList]_vars

----------------------------------------------------------------------------
(* The service when uuid4() never returns an id twice.                     *)

PostItemsUnique == CreateRequest(uuid4 \ used)

NextUnique ==
    \/ PostItemsUnique
    \/ GetItems
    \/ GetItem
    \/ PutItem
    \/ DeleteItem

SpecUnique == Init /\ [][NextUnique]_vars

----------------------------------------------------------------------------
(* Properties *)

Min(a, b) == IF a < b THEN a ELSE b
Max(a, b) == IF a > b THEN a ELSE b

\* the ids of the stored items in the order list_items walks them
KeySeq(db) == [i \in 1..Len(db) |-> db[i].key]

\* the step just taken was the named request and got the named status
Did(op, status) == last'.op = op /\ last'.status = status

\* the parsed body of the request of the step just taken
SentText == last'.body.text[1]
SentDone == IF last'.body.is_done = <<>> THEN FALSE ELSE last'.body.is_done[1]

\* ids that were stored once and are stored no longer: only delete_item
\* removes an entry
Deleted == used \ Keys(items_db)

ValidUpdates == {ItemCreate(b) : b \in {c \in Bodies : ItemCreateValid(c)}}

\* C1: every stored item has a non-empty text and is stored under a key equal
\* to its own id, and no two stored items share an id.
StoreInvariant ==
    \A i \in 1..Len(items_db) :
        /\ Len(items_db[i].value.text) >= 1
        /\ items_db[i].key = items_db[i].value.id
        /\ \A j \in 1..Len(items_db) :
              items_db[i].value.id = items_db[j].value.id => i = j

\* C1 witness: a populated store on which an update with an invalid text
\* has just been rejected.
StoreInvariantWitness ==
    /\ Len(items_db) >= 2
    /\ last.op = "update"
    /\ last.status = HTTP_422_UNPROCESSABLE_ENTITY
    /\ last.body.text = <<"">>

ReadYourWrites ==
    \A id \in Keys(items_db) :
        get_item(items_db, id) =
            Response(items_db, HTTP_200_OK,
                     <<ItemResponse(id, lastWrite[id].text, lastWrite[id].is_done)>>)

\* C3 witness: an update has just replaced both fields of one of two stored
\* items.
ReadYourWritesWitness ==
    /\ Len(items_db) >= 2
    /\ last.op = "update"
    /\ last.status = HTTP_200_OK
    /\ last.body = [text |-> <<"eggs">>, is_done |-> <<TRUE>>]
    /\ \E i \in 1..Len(items_db) : items_db[i].value.text = "milk"

FailedOperationsLeaveStoreUnchanged ==
    [][/\ (last'.op \in {"create", "update"} /\ ~ItemCreateValid(last'.body))
            => last'.status = HTTP_422_UNPROCESSABLE_ENTITY
       /\ (/\ last'.op \in {"get", "update", "delete"}
           /\ last'.op = "update" => ItemCreateValid(last'.body)
           /\ last'.id \notin Keys(items_db))
            => last'.status = HTTP_404_NOT_FOUND
       /\ last'.status \in {HTTP_404_NOT_FOUND, HTTP_422_UNPROCESSABLE_ENTITY}
            => items_db' = items_db
      ]_vars

\* C5 witness: a delete of an id that is not stored has just been refused on
\* a store that holds an item.
FailedOperationsWitness ==
    /\ Len(items_db) >= 1
    /\ last.op = "delete"
    /\ last.status = HTTP_404_NOT_FOUND
    /\ last.id \notin Keys(items_db)

\* C6: for skip >= 0 and limit >= 0, list_items on a store of n items returns
\* the items at positions skip+1 .. skip+limit of the creation order, that is
\* min(limit, max(0, n - skip)) items.
ListReturnsPage ==
    (last.op = "list" /\ last.skip >= 0 /\ last.limit >= 0) =>
        LET n == Len(items_db)
            m == Min(last.limit, Max(0, n - last.skip))
        IN  /\ last.status = HTTP_200_OK
            /\ Len(last.result) = m
            /\ \A i \in 1..m :
                  /\ last.result[i] = items_db[last.skip + i].value
                  /\ last.result[i].id = last.skip + i

\* C6 witness: with 15 items stored, skip=10 and limit=10 return the last 5.
ListReturnsPageWitness ==
    /\ Len(items_db) = 15
    /\ last.op = "list"
    /\ last.skip = 10
    /\ last.limit = 10
    /\ Len(last.result) = 5
    /\ last.result[1].id = 11
    /\ last.result[5].id = 15

\* C7: a list_items or get_item step, whatever it answers, leaves the store
\* identical: same entries, same values, same order.
ReadsAreReadOnly ==
    [][last'.op \in {"list", "get"} => items_db' = items_db]_vars

\* C7 witness: get_item has just returned one of two stored items.
ReadsAreReadOnlyWitness ==
    /\ Len(items_db) = 2
    /\ last.op = "get"
    /\ last.status = HTTP_200_OK
    /\ last.result = <<items_db[2].value>>

\* C8: for every pair of integers skip and limit that list_items accepts, the
\* page holds at most limit items (none when limit is below zero) and none of
\* the first skip items of the store.
ListPagesWithinBounds ==
    last.op = "list" =>
        /\ Len(last.result) <= Max(last.limit, 0)
        /\ \A i \in 1..Min(last.skip, Len(items_db)) :
              \A j \in 1..Len(last.result) : last.result[j] # items_db[i].value

====
